---------------------------- MODULE Spec2Model ----------------------------
(***************************************************************************)
(* Model of rss_reader.py: the dedup store, the source fetcher, the        *)
(* orchestrator pass (fetch_and_process), the single run (run_digest) and  *)
(* the poll loop (run_watch), plus the two semaphore-bounded worker pools  *)
(* (fetch_all_feeds, enrich_articles_with_full_content).                   *)
(*                                                                         *)
(* Time is counted in whole days.  A link is identified by a small string. *)
(***************************************************************************)
EXTENDS Integers, Sequences, FiniteSets, TLC

(* ------------------------------ constants ------------------------------ *)

\* rss_reader.py:48-49,52
MAX_CONCURRENT == 20
MAX_FETCH_PAGE == 10
MAX_ARTICLES_NO_DATE == 3

\* rss_reader.py:54
LLM_BATCH_SIZE == 5

\* rss_reader.py:277  len(text) > 200
PAGE_TEXT_MIN == 200

\* rss_reader.py:109  timedelta(days=30)
PRUNE_DAYS == 30

\* rss_reader.py:906  --days default
DAYS == 1

(* -------------------------------- bounds ------------------------------- *)

\* rounds of the poll loop that are explored
MaxRounds == 2
\* timer ticks one sleep is cut into
SleepTicks == 1
\* sources in the source list, when the workers are followed one by one
MaxFeeds == 22
\* articles handed to the enricher, when the workers are followed one by one
MaxPages == 12
\* entries of a feed document whose entries are dated or not, one by one
MaxEntries == 3
\* entries of a feed document without any date
MaxUndated == 10
\* articles in a list handed to the dedup store's functions
MaxItems == 3
\* articles in a list handed to the enricher, when their texts are followed
MaxEnrich == 2
\* articles in a list handed to the transformer, batch by batch
MaxArticles == 11

\* the clock when the process starts
StartNow == PRUNE_DAYS + 1

\* the links that occur in feeds and in the stored history
Links == {"l1", "l2"}

\* the source list that parse_opml yields
Feeds == <<"A", "B">>

\* how far the clock may move during one timer tick
Elapse == {0, PRUNE_DAYS}

VARIABLES
  mode,          \* "watch" (run_watch) or "digest" (run_digest)
  webhook,       \* TRUE iff a webhook_url is configured
  enable_filter, \* the enable_filter argument
  pc,            \* position of the main coroutine
  round_count,   \* run_watch's round_count
  now,           \* the clock, in days
  file,          \* SENT_DB_FILE: [state, data]; state is "missing", "ok",
                 \* "unreadable" (read_text raises), "corrupt" (json.loads
                 \* raises), "notmapping" (not a mapping of records) or
                 \* "inaccessible" (stat fails for a reason other than absence)
  sent_db,       \* the sent_db argument of the pass: [given, data]
  articles,      \* the local variable articles of fetch_and_process
  result,        \* what fetch_and_process returned
  responses,     \* what each source answered to the fetch just finished
  fetched,       \* what fetch_all_feeds returned, until the pass is over
  supplied,      \* the mapping as it was handed to this pass
  trace,         \* the stages of this pass that have completed
  notify,        \* outcome of this pass's send_to_wecom: "none", "ok", "failed"
  exc,           \* the exception in flight, "none" if there is none
  lastRound,     \* how the previous round ended: "none", "ok", "empty", "error"
  sentLog,       \* link -> sent_at of the last successful save that held it
  cancelAt,      \* where a cancellation was delivered, "none" if not
  sleepLeft,     \* timer ticks left of the current sleep
  feedPool,      \* the workers of fetch_all_feeds and their semaphore
  pagePool,      \* the workers of enrich_articles_with_full_content and theirs
  done,          \* the workers of one gather, in their order of completion
  answers,       \* what the pages, the classifier and the detail generator
                 \* answer when the enricher or the transformer asks them
  cursor,        \* the loop index of the transformer
  calls          \* the calls made to the classifier and the detail generator

vars == << mode, webhook, enable_filter, pc, round_count, now, file, sent_db,
           articles, result, responses, fetched, supplied, trace, notify,
           exc, lastRound, sentLog, cancelAt, sleepLeft, feedPool, pagePool,
           done, answers, cursor, calls >>

(* ------------------------------ sequences ------------------------------ *)

Range(s) == { s[i] : i \in 1..Len(s) }

RECURSIVE SeqFilter(_, _)
\* [x for x in s if Keep[x]] : Keep is a function over the elements of s
SeqFilter(s, Keep) ==
  IF s = << >> THEN << >>
  ELSE IF Keep[Head(s)] THEN << Head(s) >> \o SeqFilter(Tail(s), Keep)
       ELSE SeqFilter(Tail(s), Keep)

RECURSIVE Concat(_)
\* all_articles.extend(result) for each result, in order
Concat(ss) ==
  IF ss = << >> THEN << >> ELSE Head(ss) \o Concat(Tail(ss))

(* ------------------------------ dedup store ---------------------------- *)

EmptyDb == [ id \in {} |-> [link |-> "", sent_at |-> 0] ]

\* _article_id: the md5 digest of the link
ArticleId(a) == << "md5", a.link >>

\* load_sent_db raises: SENT_DB_FILE.exists() is called outside the try
\* block, and Path.exists re-raises the OSError of a stat that failed for a
\* reason other than the file's absence
LoadRaises(f) == f.state = "inaccessible"

\* load_sent_db: the stored mapping without the records at or before the
\* cutoff; the empty mapping when the file is missing, or when reading it,
\* decoding it or going through its records raises
LoadSentDb(f, t) ==
  IF f.state = "ok"
  THEN LET keep == { k \in DOMAIN f.data : f.data[k].sent_at > t - PRUNE_DAYS }
       IN  [ k \in keep |-> f.data[k] ]
  ELSE EmptyDb

\* a filter that lets every article through
FilterNothing(as, db) == as

\* a filter whose membership test is the wrong way round
FilterSeen(as, db) ==
  SeqFilter(as, [ a \in Range(as) |-> ArticleId(a) \in DOMAIN db ])

\* filter_new_articles
FilterNewArticles(as, db) ==
  SeqFilter(as, [ a \in Range(as) |-> ArticleId(a) \notin DOMAIN db ])

\* a mark_as_sent that writes into a copy and leaves its argument alone
MarkAsSentOnCopy(as, db, t) == db

\* mark_as_sent: writes one record per article into the mapping it is given
MarkAsSent(as, db, t) ==
  LET ids == { ArticleId(a) : a \in Range(as) }
      linkOf(k) == (CHOOSE a \in Range(as) : ArticleId(a) = k).link
  IN  [ k \in (DOMAIN db) \cup ids |->
          IF k \in ids THEN [link |-> linkOf(k), sent_at |-> t] ELSE db[k] ]

(* ----------------------------- source fetcher -------------------------- *)

\* one entry of a feed document: its link and its date, if one resolves
EntryDates(t) == { t - DAYS - 1, t - DAYS, t }

Entries(t) ==
  [ link : Links, dated : {TRUE}, date : EntryDates(t) ]
    \cup [ link : Links, dated : {FALSE}, date : {0} ]

\* the feed documents a source may answer with: no entry, or one
Documents(t) == { << >> } \cup { << e >> : e \in Entries(t) }

\* what a source may answer: a transport or parse failure, or a document
FailureKinds == { "timeout", "http_status", "error" }

Responses(t) ==
  [ kind : FailureKinds, entries : { << >> } ]
    \cup [ kind : {"ok"}, entries : Documents(t) ]

NewArticle(e, source) ==
  [ link |-> e.link, source |-> source,
    published |-> [has |-> e.dated, at |-> e.date],
    category |-> "", is_relevant |-> TRUE ]

\* a cutoff that also rejects the entries dated at since
TooOldAtCutoff(e, since) == e.dated /\ e.date <= since

\* if pub_date and pub_date < since: continue
TooOld(e, since) == e.dated /\ e.date < since

\* a cap that is reached one entry early
OverCapEarly(collected) == collected >= MAX_ARTICLES_NO_DATE

\* if collected > MAX_ARTICLES_NO_DATE: continue
OverCap(collected) == collected > MAX_ARTICLES_NO_DATE

\* a has_any_date that looks at the first entry only
HasAnyDateFirst(es) == es # << >> /\ es[1].dated

\* has_any_date = any(parse_date(e) is not None for e in feed.entries)
HasAnyDate(es) == \E i \in 1..Len(es) : es[i].dated

RECURSIVE FeedLoop(_, _, _, _, _)
\* the for loop of fetch_feed over feed.entries, with its counter collected
FeedLoop(es, source, since, has_any_date, collected) ==
  IF es = << >> THEN << >>
  ELSE LET e == Head(es)
           rest(c) == FeedLoop(Tail(es), source, since, has_any_date, c)
       IN  IF TooOld(e, since) THEN rest(collected)
           ELSE IF ~e.dated /\ has_any_date THEN rest(collected)
           ELSE IF ~e.dated /\ OverCap(collected + 1)
                THEN rest(collected + 1)
           ELSE << NewArticle(e, source) >>
                  \o rest(IF e.dated THEN collected ELSE collected + 1)

\* a fetch_feed whose except clauses are missing
FeedRaisesOnFailure(resp) == resp.kind # "ok"

\* an exception of fetch_feed: every one is caught and logged
FeedRaises(resp) == FALSE

\* fetch_feed: the articles of one source; none when the retrieval failed
FetchFeed(resp, source, since) ==
  IF resp.kind # "ok" THEN << >>
  ELSE FeedLoop(resp.entries, source, since, HasAnyDate(resp.entries), 0)

\* a sort key that puts a missing date at datetime.max
SortKeyMissingMax(a) == IF a.published.has THEN a.published.at ELSE 1000000

\* the sort key: published, or datetime.min when there is none
SortKey(a) == IF a.published.has THEN a.published.at ELSE -1

RECURSIVE InsertDesc(_, _)
\* a into the descending list s, after the elements with an equal key
InsertDesc(s, a) ==
  IF s = << >> THEN << a >>
  ELSE IF SortKey(Head(s)) >= SortKey(a) THEN << Head(s) >> \o InsertDesc(Tail(s), a)
       ELSE << a >> \o s

RECURSIVE SortDesc(_)
\* list.sort(key, reverse=True): stable
SortDesc(s) ==
  IF s = << >> THEN << >>
  ELSE InsertDesc(SortDesc(SubSeq(s, 1, Len(s) - 1)), s[Len(s)])

\* fetch_all_feeds: gather's results in source order, joined and sorted
FetchAllFeeds(resps, since) ==
  SortDesc(Concat([ i \in 1..Len(Feeds) |-> FetchFeed(resps[i], Feeds[i], since) ]))

\* gather re-raises what a worker raised
FetchAllRaises(resps) == \E i \in 1..Len(Feeds) : FeedRaises(resps[i])


(* ---------------------------- batch transformer ------------------------ *)

\* what the classifier may answer for one article
LLMReplies ==
  [ kind : {"error", "nojson"}, category : {"other"}, is_relevant : {FALSE} ]
    \cup [ kind : {"json"}, category : {"AI", "other"}, is_relevant : BOOLEAN ]

\* a classifier wrapper that takes is_relevant as the classifier gave it
ClassifyTrusting(a, reply) ==
  IF reply.kind = "json"
  THEN [ a EXCEPT !.category = reply.category, !.is_relevant = reply.is_relevant ]
  ELSE [ a EXCEPT !.category = "other", !.is_relevant = FALSE ]

\* summarize_with_llm, for one article: the values written back to it
Classify(a, reply) ==
  IF reply.kind = "json"
  THEN [ a EXCEPT !.category = reply.category,
                  !.is_relevant = IF reply.category = "other" THEN FALSE
                                  ELSE reply.is_relevant ]
  ELSE [ a EXCEPT !.category = "other", !.is_relevant = FALSE ]

\* the loop over the batches of ai_summarize_articles
Annotate(as, replies) == [ i \in 1..Len(as) |-> Classify(as[i], replies[i]) ]

\* a filter step that ignores enable_filter
RetainRelevantOnly(as, filter) ==
  SeqFilter(as, [ a \in Range(as) |-> a.is_relevant ])

\* relevant_articles: the relevant ones if enable_filter, all otherwise
Retain(as, filter) ==
  IF filter THEN SeqFilter(as, [ a \in Range(as) |-> a.is_relevant ]) ELSE as

\* ai_summarize_articles: the annotated articles, filtered when asked to
AiSummarizeArticles(as, replies, filter) == Retain(Annotate(as, replies), filter)

(* --------------------------- the worker pools -------------------------- *)

\* n workers behind asyncio.Semaphore(permits): how many wait for a permit,
\* how many hold one with their retrieval in flight, how many have finished
\* with a document and how many with a failure
NewPool(n, permits) ==
  [ size |-> n, waiting |-> n, inflight |-> 0, ok |-> 0, failed |-> 0,
    sem |-> permits ]

\* a worker that does not wait for a permit
AcquireAlways(pool) == TRUE

\* Semaphore.acquire goes through only while the value is positive
MayAcquire(pool) == pool.sem > 0

\* async with semaphore: a waiting worker takes a permit and starts its
\* retrieval
Acquire(pool) ==
  [ pool EXCEPT !.waiting = @ - 1, !.inflight = @ + 1, !.sem = @ - 1 ]

\* a worker that gives its permit back only when its retrieval succeeded
FinishLeaksOnFailure(pool, outcome) ==
  [ pool EXCEPT !.inflight = @ - 1,
                !.sem = IF outcome = "ok" THEN @ + 1 ELSE @,
                !.ok = IF outcome = "ok" THEN @ + 1 ELSE @,
                !.failed = IF outcome = "ok" THEN @ ELSE @ + 1 ]

\* the retrieval ends, with a result or with an error that the worker's
\* function catches; leaving the async with block releases the permit
Finish(pool, outcome) ==
  [ pool EXCEPT !.inflight = @ - 1, !.sem = @ + 1,
                !.ok = IF outcome = "ok" THEN @ + 1 ELSE @,
                !.failed = IF outcome = "ok" THEN @ ELSE @ + 1 ]

\* a gather that returns with the first worker that finishes
GatheredEarly(pool) == pool.ok + pool.failed >= 1

\* asyncio.gather returns once every worker has finished
Gathered(pool) == pool.ok + pool.failed = pool.size

(* ------------------------------- the pass ------------------------------ *)

NoDb == [ given |-> FALSE, data |-> EmptyDb ]

\* since = now - timedelta(days=days)
Since == now - DAYS

PassVars == << articles, result, responses, fetched, supplied, trace, notify >>
LoopVars == << round_count, lastRound, cancelAt, sleepLeft >>
PoolVars == << feedPool, pagePool >>
\* the arguments of the run; the pools are left alone by the steps that
\* take a whole stage at once
\* what the enricher and the transformer use when followed step by step
ToolVars == << answers, cursor, calls >>
Config   == << mode, webhook, enable_filter, PoolVars, done, ToolVars >>

\* the locals of a pass that is over
DropPass ==
  /\ articles' = << >>
  /\ result' = << >>
  /\ responses' = << >>
  /\ fetched' = << >>
  /\ supplied' = NoDb
  /\ sent_db' = NoDb
  /\ trace' = << >>
  /\ notify' = "none"

\* a round without an except clause
HandlerPropagates == "crashed"

\* where an exception raised inside a round lands: run_watch's except
\* clause; run_digest has none
Handler == IF mode = "watch" THEN "caught" ELSE "crashed"

\* an exception leaves fetch_and_process
Raise(kind) ==
  /\ pc' = Handler
  /\ exc' = kind

\* fetch_and_process returns r
Return(r) ==
  /\ pc' = "returned"
  /\ result' = r

\* a pass that goes from the fetch straight to the enricher
AfterFetchSkipsDedup == "enriching"

\* the state that follows Fetching: Deduping only with a mapping
AfterFetch == IF sent_db.given THEN "deduping" ELSE "enriching"

\* a pass that marks before it sends
AfterRenderMarksFirst ==
  IF sent_db.given THEN "marking" ELSE IF webhook THEN "notifying" ELSE "done"

\* the state that follows the rendering: the send only with a webhook,
\* the marking only with a mapping
AfterRender ==
  IF webhook THEN "notifying" ELSE IF sent_db.given THEN "marking" ELSE "done"

\* run_watch's start-up message; whatever goes wrong with it is ignored
Startup ==
  /\ pc = "startup"
  /\ pc' = "round"
  /\ UNCHANGED << Config, now, file, sent_db, PassVars, exc, sentLog, LoopVars >>

\* the top of a round: count it, load the mapping
\* (run_watch 862-866, run_digest 817-820)
RoundBegin ==
  /\ pc = "round"
  /\ round_count < MaxRounds
  /\ round_count' = round_count + 1
  /\ IF webhook /\ LoadRaises(file)
     THEN /\ Raise("load")
          /\ sent_db' = NoDb
     ELSE /\ sent_db' = IF webhook
                        THEN [given |-> TRUE, data |-> LoadSentDb(file, now)]
                        ELSE NoDb
          /\ exc' = "none"
          /\ pc' = "fetching"
  /\ supplied' = sent_db'
  /\ articles' = << >>
  /\ result' = << >>
  /\ responses' = << >>
  /\ fetched' = << >>
  /\ trace' = << >>
  /\ notify' = "none"
  /\ UNCHANGED << Config, now, file, sentLog, lastRound, cancelAt, sleepLeft >>

\* parse_opml fails
FetchingRaises ==
  /\ pc = "fetching"
  /\ Raise("opml")
  /\ UNCHANGED << Config, now, file, sent_db, PassVars, sentLog, LoopVars >>

\* Fetching: parse_opml, fetch_all_feeds, the first early exit
Fetching ==
  /\ pc = "fetching"
  /\ \E resps \in [ 1..Len(Feeds) -> Responses(now) ] :
       /\ responses' = resps
       /\ IF FetchAllRaises(resps)
          THEN /\ Raise("fetch")
               /\ UNCHANGED << articles, fetched, result, trace >>
          ELSE LET got == FetchAllFeeds(resps, Since)
               IN  /\ articles' = got
                   /\ fetched' = got
                   /\ trace' = Append(trace, "Fetching")
                   /\ exc' = exc
                   /\ IF got = << >> THEN Return(<< >>)
                      ELSE pc' = AfterFetch /\ result' = result
  /\ UNCHANGED << Config, now, file, sent_db, supplied, notify, sentLog, LoopVars >>

\* a pass without the early exit after the dedup filter
DedupNeverExits(as) == FALSE

\* the early exit after the dedup filter
DedupExits(as) == as = << >>

\* Deduping: filter_new_articles against the mapping, the second early exit
Deduping ==
  /\ pc = "deduping"
  /\ LET new == FilterNewArticles(articles, sent_db.data)
     IN  /\ articles' = new
         /\ trace' = Append(trace, "Deduping")
         /\ IF DedupExits(new) THEN Return(<< >>)
            ELSE pc' = "enriching" /\ result' = result
  /\ responses' = << >>
  /\ UNCHANGED << Config, now, file, sent_db, fetched, supplied, notify, exc,
                  sentLog, LoopVars >>

\* Enriching: enrich_articles_with_full_content; it raises nothing
Enriching ==
  /\ pc = "enriching"
  /\ pc' = "transforming"
  /\ trace' = Append(trace, "Enriching")
  /\ responses' = << >>
  /\ UNCHANGED << Config, now, file, sent_db, articles, result, fetched,
                  supplied, notify, exc, sentLog, LoopVars >>

\* create_llm_client fails
TransformingRaises ==
  /\ pc = "transforming"
  /\ Raise("llm")
  /\ UNCHANGED << Config, now, file, sent_db, PassVars, sentLog, LoopVars >>

\* Transforming: ai_summarize_articles, the third early exit
Transforming ==
  /\ pc = "transforming"
  /\ \E replies \in [ 1..Len(articles) -> LLMReplies ] :
       LET kept == AiSummarizeArticles(articles, replies, enable_filter)
       IN  /\ articles' = kept
           /\ trace' = Append(trace, "Transforming")
           /\ IF kept = << >> THEN Return(<< >>)
              ELSE pc' = "rendering" /\ result' = result
  /\ UNCHANGED << fetched, Config, now, file, sent_db, responses, supplied, notify,
                  exc, sentLog, LoopVars >>

\* generate_html_page or save_html_page fails
RenderingRaises ==
  /\ pc = "rendering"
  /\ Raise("render")
  /\ UNCHANGED << Config, now, file, sent_db, PassVars, sentLog, LoopVars >>

\* the page is generated and saved
Rendering ==
  /\ pc = "rendering"
  /\ trace' = Append(trace, "Rendering")
  /\ IF AfterRender = "done" THEN Return(articles)
     ELSE pc' = AfterRender /\ result' = result
  /\ UNCHANGED << Config, now, file, sent_db, articles, responses, fetched,
                  supplied, notify, exc, sentLog, LoopVars >>

\* send_to_wecom: the message is delivered, or it is not and that is logged
Notifying ==
  /\ pc = "notifying"
  /\ \E outcome \in {"ok", "failed"} : notify' = outcome
  /\ trace' = Append(trace, "Notifying")
  /\ IF sent_db.given THEN pc' = "marking" /\ result' = result
     ELSE Return(articles)
  /\ UNCHANGED << Config, now, file, sent_db, articles, responses, fetched,
                  supplied, exc, sentLog, LoopVars >>

\* the guard of the marking: a mapping was supplied
MayMark == sent_db.given

\* mark_as_sent and save_sent_db; the save may fail once the mapping in
\* memory has been written
Marking ==
  /\ pc = "marking"
  /\ MayMark
  /\ LET marked == MarkAsSent(articles, sent_db.data, now)
     IN  /\ sent_db' = [sent_db EXCEPT !.data = marked]
         /\ \/ /\ file' = [state |-> "ok", data |-> marked]
               /\ sentLog' = [ l \in Links |->
                                 IF \E a \in Range(articles) : a.link = l
                                 THEN [has |-> TRUE, at |-> now] ELSE sentLog[l] ]
               /\ trace' = Append(trace, "Marking")
               /\ exc' = exc
               /\ Return(articles)
            \/ /\ Raise("save")
               /\ UNCHANGED << file, sentLog, trace, result >>
  /\ UNCHANGED << Config, now, articles, responses, fetched, supplied, notify,
                  LoopVars >>

\* the pass has returned: run_watch logs and goes to sleep (868-874),
\* run_digest writes the Markdown and ends (823-837)
Returned ==
  /\ pc = "returned"
  /\ lastRound' = IF result = << >> THEN "empty" ELSE "ok"
  /\ IF mode = "watch"
     THEN pc' = "sleep" /\ sleepLeft' = SleepTicks
     ELSE pc' = "exit" /\ sleepLeft' = sleepLeft
  /\ DropPass
  /\ UNCHANGED << Config, now, file, exc, sentLog, round_count, cancelAt >>

\* run_watch's except clause: log the error, go on to the sleep (872-874)
Caught ==
  /\ pc = "caught"
  /\ exc' = "none"
  /\ lastRound' = "error"
  /\ pc' = "sleep"
  /\ sleepLeft' = SleepTicks
  /\ DropPass
  /\ UNCHANGED << Config, now, file, sentLog, round_count, cancelAt >>

\* a part of the interval elapses
SleepTick ==
  /\ pc = "sleep"
  /\ sleepLeft > 0
  /\ sleepLeft' = sleepLeft - 1
  /\ \E d \in Elapse : now' = now + d
  /\ UNCHANGED << Config, pc, file, sent_db, PassVars, exc, sentLog,
                  round_count, lastRound, cancelAt >>

\* asyncio.sleep returns: the while loop goes round
SleepDone ==
  /\ pc = "sleep"
  /\ sleepLeft = 0
  /\ pc' = "round"
  /\ UNCHANGED << Config, now, file, sent_db, PassVars, exc, sentLog, LoopVars >>

\* the positions at which the main coroutine is suspended
AwaitPcs == { "startup", "fetching", "enriching", "notifying", "sleep" }

\* a sleep whose cancellation is swallowed, so that the loop goes round
CancelSwallowed(at) == IF at = "sleep" THEN "round" ELSE "stopped"

\* where a CancelledError lands: no except clause of the program catches it
CancelLanding(at) == "stopped"

\* an external cancellation reaches the suspended coroutine
Cancel ==
  /\ mode = "watch"
  /\ pc \in AwaitPcs
  /\ cancelAt' = pc
  /\ pc' = CancelLanding(pc)
  /\ DropPass
  /\ UNCHANGED << Config, now, file, exc, sentLog, round_count, lastRound,
                  sleepLeft >>

(* --------------------------- the specification ------------------------- *)

\* the mappings a stored history may hold over the links ls
DbsOver(ls) ==
  LET ids == { << "md5", l >> : l \in ls }
  IN  { [ k \in ids |-> [link |-> k[2], sent_at |-> at[k]] ] :
          at \in [ ids -> { StartNow - PRUNE_DAYS - 1, StartNow - PRUNE_DAYS,
                            StartNow - 1 } ] }

InitFiles ==
  { [state |-> st, data |-> EmptyDb] :
      st \in { "missing", "unreadable", "corrupt", "notmapping", "inaccessible" } }
    \cup { [state |-> "ok", data |-> d] : d \in UNION { DbsOver(ls) : ls \in SUBSET Links } }

Init ==
  /\ mode \in {"watch", "digest"}
  /\ webhook \in BOOLEAN
  /\ mode = "watch" => webhook
  /\ enable_filter \in BOOLEAN
  /\ pc = IF mode = "watch" THEN "startup" ELSE "round"
  /\ round_count = 0
  /\ now = StartNow
  /\ file \in InitFiles
  /\ sent_db = NoDb
  /\ supplied = NoDb
  /\ articles = << >>
  /\ result = << >>
  /\ responses = << >>
  /\ fetched = << >>
  /\ trace = << >>
  /\ notify = "none"
  /\ exc = "none"
  /\ lastRound = "none"
  /\ sentLog = [ l \in Links |-> [has |-> FALSE, at |-> 0] ]
  /\ cancelAt = "none"
  /\ sleepLeft = 0
  /\ feedPool = NewPool(0, MAX_CONCURRENT)
  /\ pagePool = NewPool(0, MAX_FETCH_PAGE)
  /\ done = << >>
  /\ answers = << >>
  /\ cursor = 0
  /\ calls = << >>

Next ==
  \/ Startup
  \/ RoundBegin
  \/ FetchingRaises
  \/ Fetching
  \/ Deduping
  \/ Enriching
  \/ TransformingRaises
  \/ Transforming
  \/ RenderingRaises
  \/ Rendering
  \/ Notifying
  \/ Marking
  \/ Returned
  \/ Caught
  \/ SleepTick
  \/ SleepDone
  \/ Cancel

Spec == Init /\ [][Next]_vars


(* ---------------- fetch_all_feeds on whole feed documents -------------- *)

\* the link of the i-th entry of a document
LinkAt(i) == "l" \o ToString(i)

\* what parse_date makes of an entry: a date around the cutoff, or None
DateOptions(t) ==
  [ dated : {TRUE}, date : EntryDates(t) ] \cup [ dated : {FALSE}, date : {0} ]

\* the documents feedparser.parse may yield: up to MaxEntries entries of any
\* kind, or up to MaxUndated entries none of which has a date
FeedDocuments(t) ==
  UNION { { [ i \in 1..n |-> [link |-> LinkAt(i), dated |-> o[i].dated,
                               date |-> o[i].date] ] :
              o \in [ 1..n -> DateOptions(t) ] } : n \in 0..MaxEntries }
    \cup { [ i \in 1..n |-> [link |-> LinkAt(i), dated |-> FALSE, date |-> 0] ] :
              n \in 0..MaxUndated }

FeedResponses(t) ==
  [ kind : FailureKinds, entries : { << >> } ]
    \cup [ kind : {"ok"}, entries : FeedDocuments(t) ]

\* a gather that hands back the results as the workers complete
GatherByCompletion(order, rs) == [ k \in 1..Len(order) |-> rs[order[k]] ]

\* asyncio.gather: the results in the order of the tasks, whatever the order
\* in which they completed
GatherResults(order, rs) == rs

FetchFrame == << mode, webhook, enable_filter, round_count, now, file, sent_db,
                 articles, result, responses, supplied, trace, notify, exc,
                 lastRound, sentLog, cancelAt, sleepLeft, PoolVars, ToolVars >>

\* one bounded_fetch task returns (229-231)
FeedCompletes ==
  /\ pc = "gathering"
  /\ \E i \in (1..Len(Feeds)) \ Range(done) : done' = Append(done, i)
  /\ UNCHANGED << pc, fetched, FetchFrame >>

\* gather returns; the results are joined and sorted (238-247)
FetchAllReturns ==
  /\ pc = "gathering"
  /\ Len(done) = Len(Feeds)
  /\ LET rs == [ i \in 1..Len(Feeds) |-> FetchFeed(responses[i], Feeds[i], Since) ]
     IN  fetched' = SortDesc(Concat(GatherResults(done, rs)))
  /\ pc' = "gathered"
  /\ UNCHANGED << done, FetchFrame >>

InitFetch ==
  /\ mode = "digest"
  /\ webhook = FALSE
  /\ enable_filter = TRUE
  /\ pc = "gathering"
  /\ round_count = 1
  /\ now = StartNow
  /\ file = [state |-> "missing", data |-> EmptyDb]
  /\ sent_db = NoDb
  /\ supplied = NoDb
  /\ articles = << >>
  /\ result = << >>
  /\ responses \in [ 1..Len(Feeds) -> FeedResponses(now) ]
  /\ fetched = << >>
  /\ trace = << >>
  /\ notify = "none"
  /\ exc = "none"
  /\ lastRound = "none"
  /\ sentLog = [ l \in Links |-> [has |-> FALSE, at |-> 0] ]
  /\ cancelAt = "none"
  /\ sleepLeft = 0
  /\ feedPool = NewPool(0, MAX_CONCURRENT)
  /\ pagePool = NewPool(0, MAX_FETCH_PAGE)
  /\ done = << >>
  /\ answers = << >>
  /\ cursor = 0
  /\ calls = << >>

NextFetch ==
  \/ FeedCompletes
  \/ FetchAllReturns

SpecFetch == InitFetch /\ [][NextFetch]_vars


(* ------------------- the dedup store's functions ----------------------- *)

\* the articles a list handed to the store may hold
StoreArticles ==
  { NewArticle([link |-> l, dated |-> FALSE, date |-> 0], src) :
      l \in Links, src \in Range(Feeds) }

ItemLists == UNION { [ 1..n -> StoreArticles ] : n \in 0..MaxItems }

StoreFrame == << mode, webhook, enable_filter, round_count, now, file, articles,
                 responses, fetched, supplied, trace, notify, exc, lastRound,
                 sentLog, cancelAt, sleepLeft, PoolVars, done, ToolVars >>

\* filter_new_articles(articles, sent_db): a new list; neither argument is
\* written (121-122)
CallFilterNew ==
  /\ pc = "store"
  /\ result' = FilterNewArticles(articles, sent_db.data)
  /\ pc' = "filtered"
  /\ UNCHANGED << sent_db, StoreFrame >>

\* filter_new_articles on the list it returned
CallFilterAgain ==
  /\ pc = "filtered"
  /\ result' = FilterNewArticles(result, sent_db.data)
  /\ pc' = "refiltered"
  /\ UNCHANGED << sent_db, StoreFrame >>

\* mark_as_sent(articles, sent_db): the records are assigned into the dict
\* object the caller passed, which is also what is returned (125-131)
CallMarkSent ==
  /\ pc = "store"
  /\ sent_db' = [ sent_db EXCEPT !.data = MarkAsSent(articles, @, now) ]
  /\ pc' = "marked"
  /\ UNCHANGED << result, StoreFrame >>

InitStore ==
  /\ mode = "digest"
  /\ webhook = TRUE
  /\ enable_filter = TRUE
  /\ pc = "store"
  /\ round_count = 1
  /\ now = StartNow
  /\ file = [state |-> "missing", data |-> EmptyDb]
  /\ \E d \in UNION { DbsOver(ls) : ls \in SUBSET Links } :
       sent_db = [given |-> TRUE, data |-> d]
  /\ supplied = sent_db
  /\ articles \in ItemLists
  /\ result = << >>
  /\ responses = << >>
  /\ fetched = << >>
  /\ trace = << >>
  /\ notify = "none"
  /\ exc = "none"
  /\ lastRound = "none"
  /\ sentLog = [ l \in Links |-> [has |-> FALSE, at |-> 0] ]
  /\ cancelAt = "none"
  /\ sleepLeft = 0
  /\ feedPool = NewPool(0, MAX_CONCURRENT)
  /\ pagePool = NewPool(0, MAX_FETCH_PAGE)
  /\ done = << >>
  /\ answers = << >>
  /\ cursor = 0
  /\ calls = << >>

NextStore ==
  \/ CallFilterNew
  \/ CallFilterAgain
  \/ CallMarkSent

SpecStore == InitStore /\ [][NextStore]_vars


(* ------------- enrich_articles_with_full_content, text by text --------- *)

\* an Article as fetch_feed builds it, with its texts: summary and
\* full_content from the feed, the ai_ fields at their defaults
Item(link, source, summary, full_content) ==
  [ link |-> link, source |-> source, published |-> [has |-> FALSE, at |-> 0],
    category |-> "", is_relevant |-> TRUE,
    title |-> "title:" \o link, summary |-> summary,
    full_content |-> full_content,
    ai_title |-> "", ai_summary |-> "", ai_detail |-> "" ]

\* what the retrieval of a page may give: a failure of the request or of the
\* extraction, or an extracted text of some length
PageAnswers ==
  [ kind : FailureKinds, len : {0} ]
    \cup [ kind : {"ok"}, len : { 0, PAGE_TEXT_MIN, PAGE_TEXT_MIN + 1 } ]

\* the text extracted from the page of article a
PageText(a) == "page:" \o a.link

\* a test that lets a text of exactly PAGE_TEXT_MIN characters through
LongEnoughAt(n) == n >= PAGE_TEXT_MIN

\* if len(text) > 200
LongEnough(n) == n > PAGE_TEXT_MIN

\* fetch_page_content: the text if it is long enough, "" otherwise and on
\* every exception
FetchPageContent(a, ans) ==
  IF ans.kind = "ok" /\ LongEnough(ans.len) THEN PageText(a) ELSE ""

\* bounded_fetch of the enricher: if content: article.full_content = content
BoundedFetchPage(a, ans) ==
  LET content == FetchPageContent(a, ans)
  IN  IF content # "" THEN [ a EXCEPT !.full_content = content ] ELSE a

EnrichFrame == << mode, webhook, enable_filter, round_count, now, file, sent_db,
                  result, responses, fetched, supplied, trace, notify, exc,
                  lastRound, sentLog, cancelAt, sleepLeft, PoolVars, ToolVars >>

\* one bounded_fetch task of the enricher returns (287-291)
PageCompletes ==
  /\ pc = "enrich"
  /\ \E i \in (1..Len(articles)) \ Range(done) :
       /\ done' = Append(done, i)
       /\ articles' = [ articles EXCEPT ![i] = BoundedFetchPage(@, answers[i]) ]
  /\ UNCHANGED << pc, EnrichFrame >>

\* gather returns, and with it the enricher (298-300)
EnrichReturns ==
  /\ pc = "enrich"
  /\ Len(done) = Len(articles)
  /\ pc' = "enriched"
  /\ UNCHANGED << articles, done, EnrichFrame >>

\* the lists the enricher may be given: as fetch_feed leaves them,
\* full_content is the cleaned feed text and summary its first 500 characters
EnrichInputs ==
  UNION { { [ i \in 1..n |-> Item(LinkAt(i), Feeds[1], t[i], t[i]) ] :
              t \in [ 1..n -> { "", "feed" } ] } : n \in 0..MaxEnrich }

InitEnrich ==
  /\ mode = "digest"
  /\ webhook = FALSE
  /\ enable_filter = TRUE
  /\ pc = "enrich"
  /\ round_count = 1
  /\ now = StartNow
  /\ file = [state |-> "missing", data |-> EmptyDb]
  /\ sent_db = NoDb
  /\ supplied = NoDb
  /\ articles \in EnrichInputs
  /\ fetched = articles
  /\ answers \in [ 1..Len(articles) -> PageAnswers ]
  /\ result = << >>
  /\ responses = << >>
  /\ trace = << >>
  /\ notify = "none"
  /\ exc = "none"
  /\ lastRound = "none"
  /\ sentLog = [ l \in Links |-> [has |-> FALSE, at |-> 0] ]
  /\ cancelAt = "none"
  /\ sleepLeft = 0
  /\ feedPool = NewPool(0, MAX_CONCURRENT)
  /\ pagePool = NewPool(0, MAX_FETCH_PAGE)
  /\ done = << >>
  /\ cursor = 0
  /\ calls = << >>

NextEnrich ==
  \/ PageCompletes
  \/ EnrichReturns

SpecEnrich == InitEnrich /\ [][NextEnrich]_vars


(* ---------------- ai_summarize_articles, batch by batch ---------------- *)

\* content = article.full_content or article.summary or ""
HasContent(a) == a.full_content # "" \/ a.summary # ""

\* what the classifier may answer to one call: an exception (of the call or
\* of json.loads), a text without a JSON object, or a JSON object; category
\* and is_relevant as data.get leaves them, title and summary given or not
RichReplies ==
  [ kind : {"error", "nojson"}, category : {"other"}, is_relevant : {FALSE},
    title : {"absent"}, summary : {"absent"} ]
    \cup [ kind : {"json"}, category : {"AI", "other"}, is_relevant : BOOLEAN,
           title : {"absent"}, summary : {"absent"} ]
    \cup [ kind : {"json"}, category : {"AI", "other"}, is_relevant : BOOLEAN,
           title : {"zh-title"}, summary : {"zh-summary"} ]

PlainReplies ==
  { [kind |-> "error", category |-> "other", is_relevant |-> FALSE,
     title |-> "absent", summary |-> "absent"],
    [kind |-> "json", category |-> "AI", is_relevant |-> TRUE,
     title |-> "zh-title", summary |-> "zh-summary"] }

\* the text the detail generator returns for article a
DetailText(a) == "detail:" \o a.link

\* the result dict of summarize_with_llm for one article (326-360)
SummarizeOne(a, reply) ==
  IF ~HasContent(a)
  THEN [ title |-> a.title, summary |-> "", category |-> "other",
         is_relevant |-> FALSE ]
  ELSE LET c == Classify(a, reply)
       IN  CASE reply.kind = "json" ->
                  [ title |-> IF c.is_relevant /\ reply.title # "absent"
                              THEN reply.title ELSE a.title,
                    summary |-> IF c.is_relevant /\ reply.summary # "absent"
                                THEN reply.summary ELSE "",
                    category |-> c.category, is_relevant |-> c.is_relevant ]
             [] reply.kind = "nojson" ->
                  [ title |-> a.title, summary |-> "", category |-> "other",
                    is_relevant |-> FALSE ]
             [] OTHER ->
                  [ title |-> a.title, summary |-> a.summary,
                    category |-> "other", is_relevant |-> FALSE ]

\* the four assignments of a result to its article (405-408)
WriteBack(a, r) ==
  [ a EXCEPT !.ai_title = r.title, !.ai_summary = r.summary,
             !.category = r.category, !.is_relevant = r.is_relevant ]

\* batch = articles[i:i + LLM_BATCH_SIZE], i counted from 1: its last index
BatchEnd(as, i) ==
  IF i + LLM_BATCH_SIZE - 1 < Len(as) THEN i + LLM_BATCH_SIZE - 1 ELSE Len(as)

\* a write-back that forgets the batch's offset
BatchIndexNoOffset(i, j) == j

\* idx = i + j, both counted from 1
BatchIndex(i, j) == i + j - 1

\* a detail pass over the whole list
DetailTargetsAll(as, relevant) == as

\* enrich_detail_with_llm(client, relevant_articles)
DetailTargets(as, relevant) == relevant

\* enrich_detail_with_llm, for one article (367-386)
DetailOne(a, ans) ==
  IF HasContent(a) /\ ans.kind = "ok"
  THEN [ a EXCEPT !.ai_detail = DetailText(a) ]
  ELSE [ a EXCEPT !.ai_detail = a.ai_summary ]

TransformFrame == << mode, webhook, enable_filter, round_count, now, file,
                     sent_db, responses, fetched, supplied, notify, exc,
                     lastRound, sentLog, cancelAt, sleepLeft, PoolVars, done,
                     answers >>

\* one turn of the loop over the batches: summarize_with_llm on the slice,
\* the results written back (397-408)
ClassifyBatch ==
  /\ pc = "classifying"
  /\ cursor <= Len(articles)
  /\ LET hi == BatchEnd(articles, cursor)
         batch == SubSeq(articles, cursor, hi)
         results == [ j \in 1..Len(batch) |->
                        SummarizeOne(batch[j], answers.classify[cursor + j - 1]) ]
         asked == SeqFilter(batch, [ a \in Range(batch) |-> HasContent(a) ])
     IN  /\ articles' =
               [ idx \in 1..Len(articles) |->
                   IF \E j \in 1..Len(results) : BatchIndex(cursor, j) = idx
                   THEN WriteBack(articles[idx],
                          results[CHOOSE j \in 1..Len(results) :
                                    BatchIndex(cursor, j) = idx])
                   ELSE articles[idx] ]
         /\ calls' = calls \o [ k \in 1..Len(asked) |->
                                  [fn |-> "classify", link |-> asked[k].link] ]
         /\ trace' = Append(trace, << cursor, hi >>)
  /\ cursor' = cursor + LLM_BATCH_SIZE
  /\ UNCHANGED << pc, result, TransformFrame >>

\* the loop is over: relevant_articles is chosen (410-422)
RetainStep ==
  /\ pc = "classifying"
  /\ cursor > Len(articles)
  /\ result' = Retain(articles, enable_filter)
  /\ cursor' = 1
  /\ pc' = IF DetailTargets(articles, result') = << >> THEN "transformed"
           ELSE "detailing"
  /\ UNCHANGED << articles, calls, trace, TransformFrame >>

\* one turn of the loop of enrich_detail_with_llm; the article object is
\* the same in articles and in relevant_articles (366-386)
DetailItem ==
  /\ pc = "detailing"
  /\ cursor <= Len(DetailTargets(articles, result))
  /\ LET a == DetailTargets(articles, result)[cursor]
         idx == CHOOSE i \in 1..Len(articles) : articles[i].link = a.link
         b == DetailOne(a, answers.detail[idx])
     IN  /\ articles' = [ articles EXCEPT ![idx] = b ]
         /\ result' = [ k \in 1..Len(result) |->
                          IF result[k].link = a.link THEN b ELSE result[k] ]
         /\ calls' = IF HasContent(a)
                     THEN Append(calls, [fn |-> "detail", link |-> a.link])
                     ELSE calls
  /\ cursor' = cursor + 1
  /\ UNCHANGED << pc, trace, TransformFrame >>

\* return relevant_articles (427)
TransformReturns ==
  /\ pc = "detailing"
  /\ cursor > Len(DetailTargets(articles, result))
  /\ pc' = "transformed"
  /\ UNCHANGED << articles, result, cursor, calls, trace, TransformFrame >>

\* the texts an article may carry when the transformer gets it: none, the
\* page's text only, the feed's text, or the feed's summary and the page's text
TextOptions ==
  { << "", "" >>, << "", "page" >>, << "feed", "feed" >>, << "feed", "page" >> }

\* the lists given to the transformer and the answers of its collaborators:
\* short lists with every kind of text and answer, and lists of up to
\* MaxArticles articles with the feed's text, whose classification fails or
\* succeeds
TransformInputs ==
  UNION { { [ list |-> [ i \in 1..n |-> Item(LinkAt(i), Feeds[1], t[i][1], t[i][2]) ],
              classify |-> c, detail |-> d ] :
              t \in [ 1..n -> TextOptions ], c \in [ 1..n -> RichReplies ],
              d \in [ 1..n -> [ kind : {"ok", "error"} ] ] } : n \in {0, 1, 2} }
    \cup
  UNION { { [ list |-> [ i \in 1..n |-> Item(LinkAt(i), Feeds[1], "feed", "feed") ],
              classify |-> c, detail |-> [ i \in 1..n |-> [kind |-> "ok"] ] ] :
              c \in [ 1..n -> PlainReplies ] } : n \in 3..MaxArticles }

InitTransform ==
  /\ mode = "digest"
  /\ webhook = FALSE
  /\ enable_filter \in BOOLEAN
  /\ pc = "classifying"
  /\ round_count = 1
  /\ now = StartNow
  /\ file = [state |-> "missing", data |-> EmptyDb]
  /\ sent_db = NoDb
  /\ supplied = NoDb
  /\ \E in \in TransformInputs :
       /\ articles = in.list
       /\ answers = [classify |-> in.classify, detail |-> in.detail]
  /\ fetched = articles
  /\ result = << >>
  /\ responses = << >>
  /\ trace = << >>
  /\ notify = "none"
  /\ exc = "none"
  /\ lastRound = "none"
  /\ sentLog = [ l \in Links |-> [has |-> FALSE, at |-> 0] ]
  /\ cancelAt = "none"
  /\ sleepLeft = 0
  /\ feedPool = NewPool(0, MAX_CONCURRENT)
  /\ pagePool = NewPool(0, MAX_FETCH_PAGE)
  /\ done = << >>
  /\ cursor = 1
  /\ calls = << >>

NextTransform ==
  \/ ClassifyBatch
  \/ RetainStep
  \/ DetailItem
  \/ TransformReturns

SpecTransform == InitTransform /\ [][NextTransform]_vars


(* ------------------- the pass, worker by worker ------------------------ *)

MainVars == << mode, webhook, enable_filter, round_count, now, file, sent_db,
               articles, result, responses, fetched, supplied, trace, notify,
               exc, lastRound, sentLog, cancelAt, sleepLeft, done, ToolVars >>

\* bounded_fetch of fetch_all_feeds enters its async with block (230)
FeedAcquire ==
  /\ pc = "fetching"
  /\ feedPool.waiting > 0
  /\ MayAcquire(feedPool)
  /\ feedPool' = Acquire(feedPool)
  /\ UNCHANGED << pc, pagePool, MainVars >>

\* fetch_feed returns, the permit is released (231, 218-224)
FeedFinish ==
  /\ pc = "fetching"
  /\ feedPool.inflight > 0
  /\ \E outcome \in {"ok"} \cup FailureKinds : feedPool' = Finish(feedPool, outcome)
  /\ UNCHANGED << pc, pagePool, MainVars >>

\* gather is over (238); the pass goes on to the enricher with the articles
\* that are left, or returns early when none is
FeedsGathered ==
  /\ pc = "fetching"
  /\ Gathered(feedPool)
  /\ \E n \in 0..MaxPages :
       /\ n > 0 => feedPool.ok > 0
       /\ IF n = 0 THEN pc' = "returned" /\ pagePool' = pagePool
          ELSE pc' = "enriching" /\ pagePool' = NewPool(n, MAX_FETCH_PAGE)
  /\ UNCHANGED << feedPool, MainVars >>

\* bounded_fetch of enrich_articles_with_full_content enters its async with
\* block (288)
PageAcquire ==
  /\ pc = "enriching"
  /\ pagePool.waiting > 0
  /\ MayAcquire(pagePool)
  /\ pagePool' = Acquire(pagePool)
  /\ UNCHANGED << pc, feedPool, MainVars >>

\* fetch_page_content returns the text or "", the permit is released (289-291)
PageFinish ==
  /\ pc = "enriching"
  /\ pagePool.inflight > 0
  /\ \E outcome \in {"ok", "error"} : pagePool' = Finish(pagePool, outcome)
  /\ UNCHANGED << pc, feedPool, MainVars >>

\* gather is over (298); the pass goes on to the transformer
PagesGathered ==
  /\ pc = "enriching"
  /\ Gathered(pagePool)
  /\ pc' = "transforming"
  /\ UNCHANGED << PoolVars, MainVars >>

InitPools ==
  /\ mode = "digest"
  /\ webhook = FALSE
  /\ enable_filter = TRUE
  /\ pc = "fetching"
  /\ round_count = 1
  /\ now = StartNow
  /\ file = [state |-> "missing", data |-> EmptyDb]
  /\ sent_db = NoDb
  /\ supplied = NoDb
  /\ articles = << >>
  /\ result = << >>
  /\ responses = << >>
  /\ fetched = << >>
  /\ trace = << >>
  /\ notify = "none"
  /\ exc = "none"
  /\ lastRound = "none"
  /\ sentLog = [ l \in Links |-> [has |-> FALSE, at |-> 0] ]
  /\ cancelAt = "none"
  /\ sleepLeft = 0
  /\ \E n \in 0..MaxFeeds : feedPool = NewPool(n, MAX_CONCURRENT)
  /\ pagePool = NewPool(0, MAX_FETCH_PAGE)
  /\ done = << >>
  /\ answers = << >>
  /\ cursor = 0
  /\ calls = << >>

NextPools ==
  \/ FeedAcquire
  \/ FeedFinish
  \/ FeedsGathered
  \/ PageAcquire
  \/ PageFinish
  \/ PagesGathered

SpecPools == InitPools /\ [][NextPools]_vars

\* the event loop runs every task that can run, and every retrieval ends:
\* the clients are built with a timeout (233, 293)
SpecPoolsFair ==
  /\ InitPools
  /\ [][NextPools]_vars
  /\ WF_vars(FeedAcquire)
  /\ WF_vars(FeedFinish)
  /\ WF_vars(FeedsGathered)
  /\ WF_vars(PageAcquire)
  /\ WF_vars(PageFinish)
  /\ WF_vars(PagesGathered)


(* ------------------------------ properties ----------------------------- *)

\* the positions inside fetch_and_process, in the order of its text
PassPcs == { "fetching", "deduping", "enriching", "transforming", "rendering",
             "notifying", "marking" }

StageRank(p) ==
  CASE p = "fetching"     -> 1
    [] p = "deduping"     -> 2
    [] p = "enriching"    -> 3
    [] p = "transforming" -> 4
    [] p = "rendering"    -> 5
    [] p = "notifying"    -> 6
    [] p = "marking"      -> 7
    [] p = "returned"     -> 8
    [] OTHER              -> 0

\* C1: in the poll loop an exception raised by any step of a round lands in
\* the round's except clause and never ends the loop; from the except clause
\* the loop goes to the sleep, the sleep is left only for the next round (or
\* by a cancellation), and the next round counts up and starts its pass.
C1_RoundErrorsIsolated ==
  [][ mode = "watch" =>
        /\ (exc = "none" /\ exc' # "none") => pc' = "caught"
        /\ pc' # "crashed"
        /\ pc = "caught" => (pc' = "sleep" /\ exc' = "none")
        /\ (pc = "sleep" /\ pc' # "sleep") => pc' \in {"round", "stopped"}
        /\ pc = "round" =>
             (pc' \in {"fetching", "caught"} /\ round_count' = round_count + 1)
    ]_vars

\* a round that follows a round ended by an exception has started its pass
C1_Witness ==
  mode = "watch" /\ lastRound = "error" /\ round_count = 2 /\ pc = "fetching"

\* C2: inside a pass the mapping in memory and the stored mapping change
\* only in the marking step, which comes after Fetching, Deduping,
\* Enriching, Transforming, the rendering and the send have completed on a
\* non-empty article list; a pass that returned early or raised before the
\* marking still holds the mapping it was given.
C2_MarkOnlyAfterFullPass ==
  [][ (pc \in PassPcs /\ pc' # "stopped") =>
        /\ (sent_db' # sent_db \/ file' # file) =>
             /\ pc = "marking"
             /\ articles # << >>
             /\ trace = << "Fetching", "Deduping", "Enriching", "Transforming",
                           "Rendering", "Notifying" >>
             /\ notify # "none"
        /\ (pc # "marking" /\ pc' \in {"returned", "caught", "crashed"}) =>
             (sent_db' = supplied' /\ file' = file)
    ]_vars

\* a pass has marked and saved its output
C2_Witness ==
  /\ pc = "returned"
  /\ result # << >>
  /\ supplied.given
  /\ sent_db.data # supplied.data
  /\ file = [state |-> "ok", data |-> sent_db.data]

\* C3: when the send of a pass failed, no article of that pass is recorded
\* in the dedup mapping.
C3_NoRecordWithoutDelivery ==
  notify = "failed" =>
    \A a \in Range(articles) : ArticleId(a) \notin DOMAIN sent_db.data

C5_DedupBeforeEnrich ==
  /\ (supplied.given /\ pc \in (PassPcs \ {"fetching", "deduping"})) =>
       /\ "Deduping" \in Range(trace)
       /\ \A a \in Range(articles) : ArticleId(a) \notin DOMAIN supplied.data
  /\ (supplied.given /\ pc = "returned") =>
       \A a \in Range(result) : ArticleId(a) \notin DOMAIN supplied.data
  /\ (~supplied.given /\ pc = "enriching") =>
       /\ articles = fetched
       /\ trace = << "Fetching" >>

\* the filter has dropped a fetched article and handed another on
C5_Witness ==
  /\ supplied.given
  /\ pc = "enriching"
  /\ Len(articles) = 1
  /\ Len(fetched) = 2

\* C6: a pass moves through its stages only forwards; when the article list
\* is empty after Fetching, Deduping or Transforming the pass returns the
\* empty list at once; the enricher, the transformer, the renderer, the
\* notifier and the marking are never entered with an empty list.
C6_StagesInOrder ==
  [][ /\ (pc \in PassPcs /\ StageRank(pc') > 0) => StageRank(pc') > StageRank(pc)
      /\ (pc \in {"fetching", "deduping", "transforming"}
            /\ StageRank(pc') > 0 /\ articles' = << >>) =>
           (pc' = "returned" /\ result' = << >>)
      /\ pc' \in (PassPcs \ {"fetching", "deduping"}) => articles' # << >>
      /\ (pc = "fetching" /\ pc' = "enriching") => ~sent_db.given
    ]_vars

\* a pass has returned early because the dedup filter left nothing
C6_Witness ==
  /\ pc = "returned"
  /\ result = << >>
  /\ trace = << "Fetching", "Deduping" >>

\* C7: a cancellation delivered during the sleep stops the loop in that
\* step: the rest of the interval is not waited for, no round is counted,
\* and a stopped loop stays stopped.
C7_CancelEndsSleep ==
  [][ /\ (pc = "sleep" /\ cancelAt = "none" /\ cancelAt' # "none") =>
           /\ pc' = "stopped"
           /\ sleepLeft' = sleepLeft
           /\ now' = now
           /\ round_count' = round_count
      /\ pc = "stopped" => (pc' = "stopped" /\ round_count' = round_count)
    ]_vars

\* the loop has been stopped in a sleep with a part of the interval left
C7_Witness ==
  pc = "stopped" /\ cancelAt = "sleep" /\ sleepLeft > 0 /\ round_count >= 1

\* C8: there is one worker per source, every retrieval in flight holds a
\* permit of the fetcher's semaphore, and at most MAX_CONCURRENT are in
\* flight.
C8_FeedsInFlightBounded ==
  /\ feedPool.inflight <= MAX_CONCURRENT
  /\ feedPool.inflight + feedPool.sem = MAX_CONCURRENT
  /\ feedPool.waiting + feedPool.inflight + feedPool.ok + feedPool.failed
       = feedPool.size
  /\ feedPool.waiting >= 0 /\ feedPool.inflight >= 0

\* the semaphore is exhausted while another source waits
C8_Witness ==
  feedPool.inflight = MAX_CONCURRENT /\ feedPool.waiting > 0

\* C9: at most MAX_FETCH_PAGE page retrievals are in flight, each holding a
\* permit of the enricher's own semaphore, and while a page retrieval has
\* started no feed retrieval is waiting or in flight and no permit of the
\* fetcher's semaphore is taken.
C9_PagesInFlightBounded ==
  /\ pagePool.inflight <= MAX_FETCH_PAGE
  /\ pagePool.inflight + pagePool.sem = MAX_FETCH_PAGE
  /\ (pagePool.inflight + pagePool.ok + pagePool.failed > 0) =>
       /\ feedPool.waiting = 0
       /\ feedPool.inflight = 0
       /\ feedPool.sem = MAX_CONCURRENT

\* the enricher's semaphore is exhausted while another article waits
C9_Witness ==
  /\ pagePool.inflight = MAX_FETCH_PAGE
  /\ pagePool.waiting > 0
  /\ feedPool.size > MAX_CONCURRENT

\* C10: whichever sources fail, fetch_all_feeds returns without raising, a
\* source that failed has no article in the result, and the articles of a
\* source that answered are those it yields when it alone answers.
C10_FailedSourcesIsolated ==
  LET FromSource(i) ==
        SeqFilter(fetched, [ a \in Range(fetched) |-> a.source = Feeds[i] ])
      OnlySource(i) ==
        [ j \in 1..Len(Feeds) |->
            IF j = i THEN responses[j] ELSE [kind |-> "error", entries |-> << >>] ]
  IN  responses # << >> =>
        /\ exc = "none"
        /\ pc \in {"deduping", "enriching", "returned"}
        /\ \A i \in 1..Len(Feeds) :
             IF responses[i].kind # "ok"
             THEN FromSource(i) = << >>
             ELSE FromSource(i) = FetchAllFeeds(OnlySource(i), Since)

\* one source has failed and another has contributed
C10_Witness ==
  /\ pc \in {"deduping", "enriching"}
  /\ \E i, j \in 1..Len(Feeds) :
       /\ responses[i].kind = "timeout"
       /\ responses[j].kind = "ok"
       /\ \E a \in Range(fetched) : a.source = Feeds[j]

\* C11: for given answers of the sources, the list fetch_all_feeds returns
\* is the one the answers determine in source order, whatever the order in
\* which the workers completed; articles with equal or missing dates
\* included.
C11_CompletionOrderIrrelevant ==
  pc = "gathered" => fetched = FetchAllFeeds(responses, Since)

\* the second source completed first, and both sources contributed articles
\* without a date
C11_Witness ==
  /\ pc = "gathered"
  /\ done = << 2, 1 >>
  /\ \E i, j \in 1..Len(fetched) :
       /\ fetched[i].source = Feeds[1] /\ ~fetched[i].published.has
       /\ fetched[j].source = Feeds[2] /\ ~fetched[j].published.has

\* C12: the list fetch_all_feeds returns is a permutation of the sources'
\* articles joined in source order, in descending order of the date, and
\* every article without a date comes after every article with one.
C12_SortedDescMissingLast ==
  LET cat == Concat([ i \in 1..Len(Feeds) |->
                        FetchFeed(responses[i], Feeds[i], Since) ])
      Count(q, x) == Cardinality({ i \in 1..Len(q) : q[i] = x })
  IN  pc = "gathered" =>
        /\ Len(fetched) = Len(cat)
        /\ \A x \in Range(cat) \cup Range(fetched) : Count(fetched, x) = Count(cat, x)
        /\ \A i, j \in 1..Len(fetched) :
             i < j =>
               /\ (fetched[i].published.has /\ fetched[j].published.has) =>
                    fetched[i].published.at >= fetched[j].published.at
               /\ ~fetched[i].published.has => ~fetched[j].published.has

\* the first source gave articles without a date, the second gave dated ones
\* of two different dates in ascending order
C12_Witness ==
  /\ pc = "gathered"
  /\ \E a \in Range(fetched) : a.source = Feeds[1] /\ ~a.published.has
  /\ \E k \in 1..(Len(responses[2].entries) - 1) :
       /\ responses[2].entries[k].dated
       /\ responses[2].entries[k + 1].dated
       /\ Since <= responses[2].entries[k].date
       /\ responses[2].entries[k].date < responses[2].entries[k + 1].date
  /\ fetched[1].source = Feeds[2]

\* C13: a source whose document has n entries, none with a date, contributes
\* exactly its first min(n, MAX_ARTICLES_NO_DATE) entries, in document order.
C13_UndatedCapped ==
  pc = "gathered" =>
    \A i \in 1..Len(Feeds) :
      LET es == responses[i].entries
          n == Len(es)
          m == IF n < MAX_ARTICLES_NO_DATE THEN n ELSE MAX_ARTICLES_NO_DATE
      IN  (responses[i].kind = "ok" /\ \A k \in 1..n : ~es[k].dated) =>
            SeqFilter(fetched, [ a \in Range(fetched) |-> a.source = Feeds[i] ])
              = [ k \in 1..m |-> NewArticle(es[k], Feeds[i]) ]

\* a document of ten entries without a date has contributed three articles
C13_Witness ==
  /\ pc = "gathered"
  /\ \E i \in 1..Len(Feeds) :
       /\ Len(responses[i].entries) = 10
       /\ Cardinality({ k \in 1..Len(fetched) : fetched[k].source = Feeds[i] }) = 3

\* C14: a source whose document has an entry with a date contributes no
\* article without a date, however many entries lack one and whether or not
\* a dated entry passes the cutoff.
C14_UndatedDroppedWhenAnyDated ==
  pc = "gathered" =>
    \A i \in 1..Len(Feeds) :
      (\E k \in 1..Len(responses[i].entries) : responses[i].entries[k].dated) =>
        \A a \in Range(fetched) : a.source = Feeds[i] => a.published.has

\* a document whose only dated entry is older than the cutoff and comes
\* after two entries without a date has contributed nothing
C14_Witness ==
  /\ pc = "gathered"
  /\ \E i \in 1..Len(Feeds) :
       /\ Len(responses[i].entries) = 3
       /\ ~responses[i].entries[1].dated
       /\ ~responses[i].entries[2].dated
       /\ responses[i].entries[3].dated
       /\ responses[i].entries[3].date < Since
       /\ \A a \in Range(fetched) : a.source # Feeds[i]

\* C15: no article in the list fetch_all_feeds returns is dated before
\* since, and every entry of an answering source that is dated at since or
\* later is in the list.
C15_SinceCutoff ==
  pc = "gathered" =>
    /\ \A a \in Range(fetched) : a.published.has => a.published.at >= Since
    /\ \A i \in 1..Len(Feeds) :
         \A k \in 1..Len(responses[i].entries) :
           LET e == responses[i].entries[k]
           IN  (responses[i].kind = "ok" /\ e.dated /\ e.date >= Since) =>
                 NewArticle(e, Feeds[i]) \in Range(fetched)

\* one document had an entry dated at since and one dated before it; the
\* first is in the list, the second is not
C15_Witness ==
  /\ pc = "gathered"
  /\ \E i \in 1..Len(Feeds) :
       \E k, l \in 1..Len(responses[i].entries) :
         /\ responses[i].entries[k].dated /\ responses[i].entries[k].date = Since
         /\ responses[i].entries[l].dated /\ responses[i].entries[l].date < Since
         /\ NewArticle(responses[i].entries[k], Feeds[i]) \in Range(fetched)
         /\ NewArticle(responses[i].entries[l], Feeds[i]) \notin Range(fetched)

\* C16: filter_new_articles returns exactly the articles whose identity is
\* not a key of the mapping, in their input order; applied to its own result
\* with the same mapping it returns that result; it writes neither the list
\* nor the mapping it is given.
C16_FilterNewExactIdempotent ==
  [][ /\ (pc = "store" /\ pc' = "filtered") =>
           LET keep == { i \in 1..Len(articles) :
                           ArticleId(articles[i]) \notin DOMAIN sent_db.data }
               nth(k) == CHOOSE i \in keep :
                           Cardinality({ j \in keep : j <= i }) = k
           IN  /\ Len(result') = Cardinality(keep)
               /\ \A k \in 1..Len(result') : result'[k] = articles[nth(k)]
               /\ articles' = articles
               /\ sent_db' = sent_db
      /\ (pc = "filtered" /\ pc' = "refiltered") =>
           /\ result' = result
           /\ articles' = articles
           /\ sent_db' = sent_db
    ]_vars

\* the filter has dropped the middle one of three articles, twice over
C16_Witness ==
  /\ pc = "refiltered"
  /\ Len(articles) = 3
  /\ result = << articles[1], articles[3] >>
  /\ articles[1] # articles[3]

\* C17 as stated: mark_as_sent returns a mapping with a record for every
\* given article and leaves the mapping of its caller as it was.
C17_MarkSentPure ==
  [][ (pc = "store" /\ pc' = "marked") =>
        /\ \A a \in Range(articles) : ArticleId(a) \in DOMAIN sent_db'.data
        /\ sent_db' = sent_db
    ]_vars

\* C17 as amended: mark_as_sent writes into the mapping of its caller: after
\* the call that mapping holds, for every given article, a record with the
\* article's link and the current time, and every other record as before.
C17_MarkSentInPlace ==
  [][ (pc = "store" /\ pc' = "marked") =>
        LET ids == { ArticleId(a) : a \in Range(articles) }
        IN  /\ DOMAIN sent_db'.data = (DOMAIN sent_db.data) \cup ids
            /\ \A a \in Range(articles) :
                 sent_db'.data[ArticleId(a)] = [link |-> a.link, sent_at |-> now]
            /\ \A k \in (DOMAIN sent_db.data) \ ids :
                 sent_db'.data[k] = sent_db.data[k]
            /\ articles' = articles
    ]_vars

\* the call has overwritten one record of its caller's mapping and added
\* another
C17_Witness ==
  /\ pc = "marked"
  /\ \E k \in DOMAIN supplied.data : sent_db.data[k] # supplied.data[k]
  /\ \E k \in DOMAIN sent_db.data : k \notin DOMAIN supplied.data

\* C18: the mapping load_sent_db returns holds exactly the stored records
\* whose sent_at is not earlier than the load instant less PRUNE_DAYS: a
\* record later than that instant or exactly at it is kept, an earlier one
\* is dropped.
C18_PruneKeepsBoundary ==
  (pc = "fetching" /\ sent_db.given /\ file.state = "ok") =>
    DOMAIN sent_db.data
      = { k \in DOMAIN file.data : file.data[k].sent_at >= now - PRUNE_DAYS }

\* C19: the marking step ends with the pass returning its articles, whether
\* save_sent_db succeeded or failed; a failed save raises nothing.
C19_SaveFailureNotRaised ==
  [][ pc = "marking" =>
        /\ pc' = "returned"
        /\ result' = articles
        /\ result' # << >>
        /\ exc' = "none"
    ]_vars

\* C20: with the stored state missing, unreadable or not decodable into a
\* mapping of records, load_sent_db raises nothing and returns the empty
\* mapping, and the pass hands every fetched article on as new.
C20_LoadNeverRaises ==
  [][ /\ (pc = "round" /\ webhook /\ file.state # "ok") =>
           /\ pc' = "fetching"
           /\ exc' = "none"
           /\ sent_db' = [given |-> TRUE, data |-> EmptyDb]
      /\ (pc = "deduping" /\ file.state # "ok") =>
           /\ pc' = "enriching"
           /\ articles' = articles
    ]_vars

\* C21: an article whose page was retrieved with an extracted text longer
\* than PAGE_TEXT_MIN characters has that text as its full_content; an
\* article whose text was that long or shorter, or whose retrieval or
\* extraction failed, is exactly as it was before the enricher, as is an
\* article whose worker has not finished; the enricher raises nothing.
C21_EnrichReplacesOnlyLongText ==
  pc \in {"enrich", "enriched"} =>
    /\ exc = "none"
    /\ Len(articles) = Len(fetched)
    /\ \A i \in 1..Len(articles) :
         IF i \in Range(done) /\ answers[i].kind = "ok"
              /\ answers[i].len > PAGE_TEXT_MIN
         THEN articles[i] = [ fetched[i] EXCEPT !.full_content = PageText(fetched[i]) ]
         ELSE articles[i] = fetched[i]
    /\ pc = "enriched" => Range(done) = 1..Len(articles)

\* the enricher has returned: one article has its page's text of
\* PAGE_TEXT_MIN + 1 characters, another, whose page gave exactly
\* PAGE_TEXT_MIN characters, still has its feed text
C21_Witness ==
  /\ pc = "enriched"
  /\ \E i, j \in 1..Len(articles) :
       /\ answers[i] = [kind |-> "ok", len |-> PAGE_TEXT_MIN + 1]
       /\ articles[i].full_content = PageText(articles[i])
       /\ answers[j] = [kind |-> "ok", len |-> PAGE_TEXT_MIN]
       /\ articles[j].full_content = "feed"

\* C22: an article whose classifier call raised or whose reply held no
\* JSON object has category "other", is_relevant false, an empty ai_summary
\* and its own title as ai_title; the transformer raises nothing; and every
\* article carries the values that its own reply alone determines.
C22_ClassifierFailureFallback ==
  pc \in {"detailing", "transformed"} =>
    /\ exc = "none"
    /\ \A idx \in 1..Len(articles) :
         LET r == SummarizeOne(fetched[idx], answers.classify[idx])
         IN  /\ (HasContent(fetched[idx])
                   /\ answers.classify[idx].kind \in {"error", "nojson"}) =>
                  /\ articles[idx].category = "other"
                  /\ ~articles[idx].is_relevant
                  /\ articles[idx].ai_summary = ""
                  /\ articles[idx].ai_title = fetched[idx].title
             /\ articles[idx].category = r.category
             /\ articles[idx].is_relevant = r.is_relevant
             /\ articles[idx].ai_title = r.title
             /\ articles[idx].ai_summary = r.summary

\* C23: an article for which the classifier answered category "other" has
\* is_relevant false whatever is_relevant the classifier gave, and with
\* enable_filter it is not in the transformer's output; with enable_filter
\* no article of the output has category "other" or is_relevant false.
C23_OtherForcedIrrelevant ==
  pc \in {"detailing", "transformed"} =>
    /\ \A idx \in 1..Len(articles) :
         (HasContent(fetched[idx]) /\ answers.classify[idx].kind = "json"
            /\ answers.classify[idx].category = "other") =>
           /\ ~articles[idx].is_relevant
           /\ enable_filter =>
                \A a \in Range(result) : a.link # articles[idx].link
    /\ enable_filter =>
         \A a \in Range(result) : a.category # "other" /\ a.is_relevant

\* with enable_filter, the classifier answered "other" with is_relevant
\* true for one article, which is not in the output, while another is
C23_Witness ==
  /\ pc = "transformed"
  /\ enable_filter
  /\ Len(result) = 1
  /\ \E idx \in 1..Len(articles) :
       /\ HasContent(fetched[idx])
       /\ answers.classify[idx].kind = "json"
       /\ answers.classify[idx].category = "other"
       /\ answers.classify[idx].is_relevant
       /\ result[1].link # articles[idx].link

\* C24: without enable_filter the transformer's output is the whole input
\* list in input order, whatever the category and is_relevant of its
\* articles; with enable_filter it is the articles with is_relevant true, in
\* input order.
C24_FilterOnlyWhenEnabled ==
  pc \in {"detailing", "transformed"} =>
    /\ Len(articles) = Len(fetched)
    /\ \A idx \in 1..Len(articles) : articles[idx].link = fetched[idx].link
    /\ LET keep == { idx \in 1..Len(articles) :
                       ~enable_filter \/ articles[idx].is_relevant }
           nth(k) == CHOOSE idx \in keep :
                       Cardinality({ j \in keep : j <= idx }) = k
       IN  /\ Len(result) = Cardinality(keep)
           /\ \A k \in 1..Len(result) : result[k] = articles[nth(k)]

\* without enable_filter the output holds both articles of the input, the
\* first of category "other", the second not relevant
C24_Witness ==
  /\ pc = "transformed"
  /\ ~enable_filter
  /\ Len(fetched) = 2
  /\ Len(result) = 2
  /\ result[1].category = "other"
  /\ result[2].category = "AI" /\ ~result[2].is_relevant

\* C25: no call to the detail generator precedes a call to the classifier,
\* and when one is made every article has been classified; the detail
\* generator is called only for articles of relevant_articles; an article
\* whose detail call failed has its ai_summary as ai_detail, and every
\* other article has the detail its own call gave.
C25_DetailAfterClassifyOnRetained ==
  /\ \A p, q \in 1..Len(calls) :
       p < q => ~(calls[p].fn = "detail" /\ calls[q].fn = "classify")
  /\ (\E p \in 1..Len(calls) : calls[p].fn = "detail") =>
       /\ pc \in {"detailing", "transformed"}
       /\ \A idx \in 1..Len(articles) : articles[idx].category # ""
  /\ \A p \in 1..Len(calls) :
       calls[p].fn = "detail" =>
         \E a \in Range(result) :
           a.link = calls[p].link /\ (enable_filter => a.is_relevant)
  /\ pc = "transformed" =>
       \A k \in 1..Len(result) :
         LET idx == CHOOSE i \in 1..Len(fetched) : fetched[i].link = result[k].link
         IN  result[k].ai_detail =
               IF HasContent(result[k]) /\ answers.detail[idx].kind = "ok"
               THEN DetailText(result[k]) ELSE result[k].ai_summary

\* with enable_filter one article was filtered out and never sent to the
\* detail generator; the detail call for the other failed and its ai_detail
\* is its ai_summary
C25_Witness ==
  /\ pc = "transformed"
  /\ enable_filter
  /\ Len(articles) = 2
  /\ Len(result) = 1
  /\ HasContent(result[1])
  /\ \E idx \in 1..Len(fetched) :
       fetched[idx].link = result[1].link /\ answers.detail[idx].kind = "error"
  /\ result[1].ai_summary = "zh-summary"
  /\ result[1].ai_detail = "zh-summary"
  /\ Len(calls) = 3

\* C26: the batches are taken one after another as the slices
\* [1..5], [6..10], ... of the input, the last one ending with the list;
\* after the loop there are ceil(n / LLM_BATCH_SIZE) of them and every index
\* lies in exactly one; an article of a batch already taken carries the
\* result of its own classification, an article of a later batch is
\* untouched; the classifier was called once for every article with a
\* text, in input order.
C26_BatchesPartitionInput ==
  LET n == Len(articles)
      taken(idx) == \E b \in 1..Len(trace) : trace[b][1] <= idx /\ idx <= trace[b][2]
      asked == SeqFilter(calls, [ c \in Range(calls) |-> c.fn = "classify" ])
      due == { idx \in 1..n : taken(idx) /\ HasContent(fetched[idx]) }
      nth(k) == CHOOSE idx \in due : Cardinality({ j \in due : j <= idx }) = k
  IN  pc \in {"classifying", "detailing", "transformed"} =>
        /\ \A b \in 1..Len(trace) :
             /\ trace[b][1] = LLM_BATCH_SIZE * (b - 1) + 1
             /\ trace[b][2] = IF LLM_BATCH_SIZE * b < n THEN LLM_BATCH_SIZE * b ELSE n
        /\ pc = "classifying" => cursor = LLM_BATCH_SIZE * Len(trace) + 1
        /\ pc # "classifying" =>
             /\ Len(trace) = (n + LLM_BATCH_SIZE - 1) \div LLM_BATCH_SIZE
             /\ \A idx \in 1..n :
                  Cardinality({ b \in 1..Len(trace) :
                                  trace[b][1] <= idx /\ idx <= trace[b][2] }) = 1
        /\ \A idx \in 1..n :
             IF taken(idx)
             THEN LET r == SummarizeOne(fetched[idx], answers.classify[idx])
                  IN  /\ articles[idx].link = fetched[idx].link
                      /\ articles[idx].ai_title = r.title
                      /\ articles[idx].ai_summary = r.summary
                      /\ articles[idx].category = r.category
                      /\ articles[idx].is_relevant = r.is_relevant
             ELSE articles[idx] = fetched[idx]
        /\ Len(asked) = Cardinality(due)
        /\ \A k \in 1..Len(asked) : asked[k].link = fetched[nth(k)].link

\* eleven articles went through three batches; the classification failed
\* for the first article of the second batch and succeeded for its
\* neighbours
C26_Witness ==
  /\ pc = "transformed"
  /\ Len(articles) = 11
  /\ trace = << << 1, 5 >>, << 6, 10 >>, << 11, 11 >> >>
  /\ articles[5].is_relevant
  /\ ~articles[6].is_relevant
  /\ articles[7].is_relevant
  /\ articles[11].is_relevant

\* C27: with every retrieval ending and every runnable task run, the fetch
\* and the enrichment come to their end; once the fetch is over every
\* source worker has finished and the fetcher's semaphore holds all its
\* permits, and once the enrichment is over the same is true of the page
\* workers and the enricher's semaphore, whatever number of retrievals
\* failed.
C27_PoolsDrain ==
  /\ [](pc # "fetching" =>
          /\ feedPool.ok + feedPool.failed = feedPool.size
          /\ feedPool.waiting = 0 /\ feedPool.inflight = 0
          /\ feedPool.sem = MAX_CONCURRENT)
  /\ [](pc = "transforming" =>
          /\ pagePool.ok + pagePool.failed = pagePool.size
          /\ pagePool.waiting = 0 /\ pagePool.inflight = 0
          /\ pagePool.sem = MAX_FETCH_PAGE)
  /\ <>(pc \in {"returned", "transforming"})

\* both stages are over after more failures than their semaphores have
\* permits
C27_Witness ==
  /\ pc = "transforming"
  /\ feedPool.failed > MAX_CONCURRENT
  /\ pagePool.failed > MAX_FETCH_PAGE
  /\ feedPool.sem = MAX_CONCURRENT
  /\ pagePool.sem = MAX_FETCH_PAGE

\* C28: no two of the articles that a pass hands to the enricher, to the
\* transformer, to the page, to the webhook or to the marking have the same
\* link, and no two of the articles that the pass returns have.
C28_OutputLinksDistinct ==
  LET distinct(as) ==
        \A i, j \in 1..Len(as) : i # j => as[i].link # as[j].link
  IN  /\ pc \in {"enriching", "transforming", "rendering", "notifying",
                 "marking"} => distinct(articles)
      /\ pc = "returned" => distinct(result)

\* C29: when a pass with a mapping supplied returns, the keys of the mapping
\* are the keys it was supplied with and the identities of the returned
\* articles, and the records of the supplied keys are as they were; no
\* article that the pass fetched as new and did not return has its identity
\* in the mapping then; and the dedup filter of a round hands on every
\* article whose identity the mapping does not hold.
C29_MappingGrowsByOutputOnly ==
  [][ /\ (supplied.given /\ pc # "returned" /\ pc' = "returned") =>
           LET before == supplied.data
               after == sent_db'.data
               out == { ArticleId(a) : a \in Range(result') }
               dropped ==
                 { a \in Range(fetched) :
                     /\ ArticleId(a) \notin DOMAIN before
                     /\ \A b \in Range(result') :
                          ~(b.link = a.link /\ b.source = a.source) }
           IN  /\ DOMAIN after = (DOMAIN before) \cup out
               /\ \A k \in DOMAIN before : after[k] = before[k]
               /\ \A a \in dropped : ArticleId(a) \notin DOMAIN after
      /\ (pc = "deduping" /\ pc' = "enriching") =>
           \A a \in Range(articles) :
             ArticleId(a) \notin DOMAIN sent_db.data => a \in Range(articles')
    ]_vars

=============================================================================
